---- MODULE Spec2Model ----
(***************************************************************************)
(* Model of the recurrence-expansion and day-query engine of the event     *)
(* calendar (src/components/event-calendar/utils.ts).                      *)
(*                                                                         *)
(* Time.  A Date is an integer number of hours since Sunday 2023-01-01     *)
(* 00:00 local time (no DST).  The hour is the resolution of the model;    *)
(* the last instant of a day is its hour 23 (date-fns: 23:59:59.999).      *)
(* An optional field (interval?, monthDay?, endDate?, recurrence?) is a    *)
(* sequence of length 0 (undefined) or 1.                                  *)
(***************************************************************************)
EXTENDS Integers, Sequences, FiniteSets, TLC

VARIABLES events, call, result, pc, currentDate, instances

vars == <<events, call, result, pc, currentDate, instances>>

-----------------------------------------------------------------------------
(* date-fns and Date primitives, on hours since the epoch                   *)

HoursPerDay == 24
DaysPerWeek == 7

Min(a, b) == IF a < b THEN a ELSE b

\* calendar day number of an instant (floor division, also before the epoch)
DayOf(t) == t \div HoursPerDay

\* time of day of an instant, in hours
HourOf(t) == t % HoursPerDay

startOfDay(t) == DayOf(t) * HoursPerDay

endOfDay(t) == DayOf(t) * HoursPerDay + (HoursPerDay - 1)

\* Date.prototype.getDay: 0 = Sunday; day 0 of the epoch is a Sunday
getDay(t) == DayOf(t) % DaysPerWeek

addDays(t, n) == t + n * HoursPerDay

addWeeks(t, n) == addDays(t, n * DaysPerWeek)

\* weekStartsOn defaults to 0 (Sunday)
startOfWeek(t) == addDays(startOfDay(t), 0 - getDay(t))

endOfWeek(t) == addDays(endOfDay(t), (DaysPerWeek - 1) - getDay(t))

\* A Date whose time value leaves the representable range is an Invalid Date
\* (time value NaN).  ECMAScript allows +-8.64e15 ms; the model scales the
\* range down to +-TimeValueWeeks weeks around the epoch.
TimeValueWeeks == 16

isValid(t) ==
    /\ t >= 0 - TimeValueWeeks * DaysPerWeek * HoursPerDay
    /\ t <= TimeValueWeeks * DaysPerWeek * HoursPerDay

\* isBefore(a, b): a comparison with NaN is false
isBefore(a, b) == isValid(a) /\ isValid(b) /\ a < b

isSameDay(a, b) == startOfDay(a) = startOfDay(b)

\* isWithinInterval(date, {start, end}), for start <= end
isWithinInterval(t, s, e) == s <= t /\ t <= e

\* Gregorian months, counted from January 2023 (month index 0)
IsLeapYear(y) == (y % 4 = 0 /\ y % 100 # 0) \/ y % 400 = 0

MonthLengths == <<31, 28, 31, 30, 31, 30, 31, 31, 30, 31, 30, 31>>

DaysInMonth(m) ==
    IF m % 12 = 1 /\ IsLeapYear(2023 + (m \div 12))
    THEN 29
    ELSE MonthLengths[(m % 12) + 1]

RECURSIVE MonthStartDay(_)
\* day number of the first day of month m
MonthStartDay(m) == IF m = 0 THEN 0 ELSE MonthStartDay(m - 1) + DaysInMonth(m - 1)

RECURSIVE MonthFrom(_, _)
MonthFrom(d, m) == IF d < MonthStartDay(m + 1) THEN m ELSE MonthFrom(d, m + 1)

\* month index of an instant at or after the epoch
MonthOf(t) == MonthFrom(DayOf(t), 0)

\* getDate / Date.prototype.getDate: the day of the month, 1..31
getDate(t) == DayOf(t) - MonthStartDay(MonthOf(t)) + 1

startOfMonth(t) == MonthStartDay(MonthOf(t)) * HoursPerDay

endOfMonth(t) == MonthStartDay(MonthOf(t) + 1) * HoursPerDay - 1

\* setDate(date, d): Date.prototype.setDate, which overflows into the
\* following month when the month has fewer than d days
setDate(t, d) == (MonthStartDay(MonthOf(t)) + d - 1) * HoursPerDay + HourOf(t)

\* addMonths(date, n): same day of month, clamped to the target month's end
addMonths(t, n) ==
    LET m == MonthOf(t) + n
    IN  (MonthStartDay(m) + Min(getDate(t), DaysInMonth(m)) - 1) * HoursPerDay
        + HourOf(t)

\* differenceInCalendarDays(l, r)
differenceInCalendarDays(l, r) == DayOf(l) - DayOf(r)

\* differenceInDays(l, r): the number of full days between r and l; the
\* calendar-day difference, less one when the last day is not full
differenceInDays(l, r) ==
    LET sign == IF l < r THEN -1 ELSE IF l > r THEN 1 ELSE 0
        diff == IF l < r THEN DayOf(r) - DayOf(l) ELSE DayOf(l) - DayOf(r)
        moved == addDays(l, 0 - sign * diff)
        cmp == IF moved < r THEN -1 ELSE IF moved > r THEN 1 ELSE 0
        notFull == IF cmp = 0 - sign /\ sign # 0 THEN 1 ELSE 0
    IN  sign * (diff - notFull)

\* eachDayOfInterval({start, end}): the start of every day of the interval
eachDayOfInterval(s, e) ==
    IF e < startOfDay(s) THEN <<>>
    ELSE [k \in 1..(DayOf(e) - DayOf(s) + 1) |-> addDays(startOfDay(s), k - 1)]

\* eachWeekOfInterval({start, end}): the start of every week of the interval
eachWeekOfInterval(s, e) ==
    [k \in 1..((DayOf(startOfWeek(e)) - DayOf(startOfWeek(s))) \div DaysPerWeek + 1)
        |-> addWeeks(startOfWeek(s), k - 1)]

-----------------------------------------------------------------------------
(* CalendarEvent and RecurrencePattern (src/unnamed/part_000)               *)

\* an optional field: <<>> is undefined, <<v>> is the value v
None == <<>>
Some(v) == <<v>>
IsSome(o) == Len(o) > 0
Get(o) == o[1]

\* RecurrencePattern; weekDays undefined and weekDays [] are both <<>>
RecurrencePattern(type, interval, weekDays, monthDay, endDate) ==
    [type |-> type, interval |-> interval, weekDays |-> weekDays,
     monthDay |-> monthDay, endDate |-> endDate]

\* a base CalendarEvent; an id is its base string and the list of suffixes
\* appended to it
CalendarEvent(name, start, end, allDay, recurrence) ==
    [id |-> [base |-> name, suffix |-> <<>>], title |-> name,
     start |-> start, end |-> end, allDay |-> allDay,
     recurrence |-> recurrence, isRecurringInstance |-> FALSE]

\* `${event.id}-${start.getTime()}`
InstanceId(id, start) == [id EXCEPT !.suffix = Append(@, start)]

-----------------------------------------------------------------------------
(* Helpers                                                                  *)

\* isMultiDayEvent compares Date.prototype.getDate, the day of the month
isMultiDayEvent(event) ==
    event.allDay \/ getDate(event.start) # getDate(event.end)

\* (a, b) => new Date(a.start).getTime() - new Date(b.start).getTime()
CompareStart(a, b) == a.start - b.start

\* the comparator of sortEvents
CompareMultiDayFirst(a, b) ==
    IF isMultiDayEvent(a) /\ ~isMultiDayEvent(b) THEN -1
    ELSE IF ~isMultiDayEvent(a) /\ isMultiDayEvent(b) THEN 1
    ELSE CompareStart(a, b)

Compare(order, a, b) ==
    IF order = "multiDayFirst" THEN CompareMultiDayFirst(a, b) ELSE CompareStart(a, b)

RECURSIVE Insert(_, _, _)
\* x placed after every element that does not compare greater than it
Insert(order, sorted, x) ==
    IF sorted = <<>> THEN <<x>>
    ELSE IF Compare(order, Head(sorted), x) <= 0
         THEN <<Head(sorted)>> \o Insert(order, Tail(sorted), x)
         ELSE <<x>> \o sorted

RECURSIVE ArraySort(_, _)
\* Array.prototype.sort with a comparator: a stable sort
ArraySort(order, arr) ==
    IF arr = <<>> THEN <<>>
    ELSE Insert(order, ArraySort(order, SubSeq(arr, 1, Len(arr) - 1)), arr[Len(arr)])

\* The functions below return the caller's array as the call leaves it
\* (arg) and the returned array (ret): filter and spread allocate a new
\* array, sort orders the array it is called on.

getEventsForDay(evs, day) ==
    LET filtered == SelectSeq(evs, LAMBDA event: isSameDay(day, event.start))
    IN  [arg |-> evs, ret |-> ArraySort("start", filtered)]

\* sortEvents without the copy: the caller's array is the one sorted
sortEventsInPlace(evs) ==
    [arg |-> ArraySort("multiDayFirst", evs), ret |-> ArraySort("multiDayFirst", evs)]

sortEvents(evs) ==
    LET copy == evs
    IN  [arg |-> evs, ret |-> ArraySort("multiDayFirst", copy)]

\* not the start day, but the end day or a day strictly in between
CoversAfterStart(event, day) ==
    /\ ~isSameDay(day, event.start)
    /\ (isSameDay(day, event.end) \/ (day > event.start /\ day < event.end))

getSpanningEventsForDay(evs, day) ==
    [arg |-> evs,
     ret |-> SelectSeq(evs, LAMBDA event:
                 isMultiDayEvent(event) /\ CoversAfterStart(event, day))]

-----------------------------------------------------------------------------
(* generateRecurringEvents                                                  *)

\* endDate && isBefore(endDate, date)
EndedBefore(rec, date) == IsSome(rec.endDate) /\ isBefore(Get(rec.endDate), date)

\* const { interval = 1 } = event.recurrence
IntervalOf(rec) == IF IsSome(rec.interval) THEN Get(rec.interval) ELSE 1

\* eventDuration = differenceInDays(eventEnd, eventStart)
eventDuration(event) == differenceInDays(event.end, event.start)

generateInstance(event, start) ==
    [event EXCEPT !.id = InstanceId(event.id, start),
                  !.start = start,
                  !.end = addDays(start, eventDuration(event)),
                  !.isRecurringInstance = TRUE]

RECURSIVE DailyInstances(_, _, _)
\* case "daily": the forEach over eachDayOfInterval
DailyInstances(event, dates, k) ==
    IF k > Len(dates) THEN <<>>
    ELSE (IF EndedBefore(Get(event.recurrence), dates[k])
          THEN <<>>
          ELSE <<generateInstance(event, dates[k])>>)
         \o DailyInstances(event, dates, k + 1)

RECURSIVE WeekDayInstancesUnchecked(_, _, _, _, _)
\* the inner forEach without the test that the date lies in the range
WeekDayInstancesUnchecked(event, weekStart, rangeStart, rangeEnd, k) ==
    LET weekDays == Get(event.recurrence).weekDays
        date == addDays(startOfWeek(weekStart), weekDays[k])
    IN  IF k > Len(weekDays) THEN <<>>
        ELSE <<generateInstance(event, date)>>
             \o WeekDayInstancesUnchecked(event, weekStart, rangeStart, rangeEnd, k + 1)

RECURSIVE WeekDayInstances(_, _, _, _, _)
\* the inner weekDays.forEach of case "weekly"
WeekDayInstances(event, weekStart, rangeStart, rangeEnd, k) ==
    LET weekDays == Get(event.recurrence).weekDays
        date == addDays(startOfWeek(weekStart), weekDays[k])
    IN  IF k > Len(weekDays) THEN <<>>
        ELSE (IF isWithinInterval(date, rangeStart, rangeEnd)
              THEN <<generateInstance(event, date)>>
              ELSE <<>>)
             \o WeekDayInstances(event, weekStart, rangeStart, rangeEnd, k + 1)

\* the endDate test of case "weekly", made on the start of the week
WeekEnded(event, weekStart) == EndedBefore(Get(event.recurrence), weekStart)

RECURSIVE WeeklyInstances(_, _, _, _, _)
\* case "weekly": the forEach over eachWeekOfInterval
WeeklyInstances(event, weeks, rangeStart, rangeEnd, k) ==
    IF k > Len(weeks) THEN <<>>
    ELSE (IF WeekEnded(event, weeks[k])
          THEN <<>>
          ELSE WeekDayInstances(event, weeks[k], rangeStart, rangeEnd, 1))
         \o WeeklyInstances(event, weeks, rangeStart, rangeEnd, k + 1)

\* the monthly push without the test that the month has the day
MonthHasDayAlways(currentMonth, monthDay) == TRUE

\* the test that case "monthly" makes before it pushes an instance
MonthHasDay(currentMonth, monthDay) == getDate(endOfMonth(currentMonth)) >= monthDay

RECURSIVE MonthlyInstances(_, _, _, _)
\* case "monthly": the while loop over the starts of the months
MonthlyInstances(event, currentMonth, rangeStart, rangeEnd) ==
    LET rec == Get(event.recurrence)
        monthDay == Get(rec.monthDay)
        date == setDate(currentMonth, monthDay)
    IN  IF ~isBefore(currentMonth, rangeEnd) THEN <<>>
        ELSE IF EndedBefore(rec, currentMonth) THEN <<>>
        ELSE (IF /\ isWithinInterval(date, rangeStart, rangeEnd)
                 /\ MonthHasDay(currentMonth, monthDay)
              THEN <<generateInstance(event, date)>>
              ELSE <<>>)
             \o MonthlyInstances(event, addMonths(currentMonth, 1), rangeStart, rangeEnd)

\* case "custom": the test of the while loop
CustomTest(cur, rangeEnd) == isBefore(cur, rangeEnd)

\* case "custom": the break inside the loop
CustomBreak(event, cur) == EndedBefore(Get(event.recurrence), cur)

\* case "custom": the instance the loop body pushes, if any
CustomPush(event, cur, rangeStart, rangeEnd) ==
    IF isWithinInterval(cur, rangeStart, rangeEnd)
    THEN <<generateInstance(event, cur)>>
    ELSE <<>>

\* case "custom": currentDate = addWeeks(currentDate, interval)
CustomAdvance(event, cur) == addWeeks(cur, IntervalOf(Get(event.recurrence)))

\* if (endDate && isBefore(endDate, rangeStart)) return []
RangeAfterEnd(rec, rangeStart) == EndedBefore(rec, rangeStart)

\* The custom walk is entered and never leaves its loop: the interval is 0,
\* so currentDate stays at the event's start, where neither the loop test
\* nor the break ends the walk.
Diverges(event, rangeStart, rangeEnd) ==
    /\ IsSome(event.recurrence)
    /\ Get(event.recurrence).type = "custom"
    /\ ~RangeAfterEnd(Get(event.recurrence), rangeStart)
    /\ IntervalOf(Get(event.recurrence)) = 0
    /\ CustomTest(event.start, rangeEnd)
    /\ ~CustomBreak(event, event.start)

RECURSIVE CustomInstances(_, _, _, _)
\* case "custom": the while loop, for an event whose walk ends
CustomInstances(event, cur, rangeStart, rangeEnd) ==
    IF ~CustomTest(cur, rangeEnd) THEN <<>>
    ELSE IF CustomBreak(event, cur) THEN <<>>
    ELSE CustomPush(event, cur, rangeStart, rangeEnd)
         \o CustomInstances(event, CustomAdvance(event, cur), rangeStart, rangeEnd)

\* generateRecurringEvents(event, rangeStart, rangeEnd), rangeStart <= rangeEnd
generateRecurringEvents(event, rangeStart, rangeEnd) ==
    IF ~IsSome(event.recurrence) THEN <<event>>
    ELSE LET rec == Get(event.recurrence) IN
         IF RangeAfterEnd(rec, rangeStart) THEN <<>>
         ELSE CASE rec.type = "daily" ->
                     DailyInstances(event, eachDayOfInterval(rangeStart, rangeEnd), 1)
                [] rec.type = "weekly" ->
                     IF Len(rec.weekDays) = 0 THEN <<event>>
                     ELSE WeeklyInstances(event, eachWeekOfInterval(rangeStart, rangeEnd),
                                          rangeStart, rangeEnd, 1)
                [] rec.type = "monthly" ->
                     IF ~IsSome(rec.monthDay) \/ Get(rec.monthDay) = 0 THEN <<event>>
                     ELSE MonthlyInstances(event, startOfMonth(rangeStart),
                                           rangeStart, rangeEnd)
                [] rec.type = "custom" ->
                     CustomInstances(event, event.start, rangeStart, rangeEnd)
                [] OTHER -> <<event>>

-----------------------------------------------------------------------------
(* Day queries                                                              *)

RECURSIVE FlatMapGenerate(_, _, _, _)
\* events.flatMap((event) => generateRecurringEvents(event, start, end))
FlatMapGenerate(evs, rangeStart, rangeEnd, k) ==
    IF k > Len(evs) THEN <<>>
    ELSE generateRecurringEvents(evs[k], rangeStart, rangeEnd)
         \o FlatMapGenerate(evs, rangeStart, rangeEnd, k + 1)

\* the filter of getAllEventsForDay
OnDay(event, day) ==
    \/ isSameDay(day, event.start)
    \/ isSameDay(day, event.end)
    \/ (day > event.start /\ day < event.end)

\* the expansion window of getAllEventsForDay
WindowStart(day) == startOfWeek(day)

WindowEnd(day) == endOfWeek(day)

getAllEventsForDay(evs, day) ==
    [arg |-> evs,
     ret |-> SelectSeq(FlatMapGenerate(evs, WindowStart(day), WindowEnd(day), 1),
                       LAMBDA event: OnDay(event, day))]

getAgendaEventsForDay(evs, day) ==
    [arg |-> getAllEventsForDay(evs, day).arg,
     ret |-> ArraySort("start", getAllEventsForDay(evs, day).ret)]

\* a day query that expands an event whose custom walk never ends
Hangs(evs, day) ==
    \E k \in 1..Len(evs) : Diverges(evs[k], WindowStart(day), WindowEnd(day))

-----------------------------------------------------------------------------
(* Inputs: the events, days and ranges the calls are made with             *)

\* hour h of day d; day 0 is Sunday 1 January 2023, day 31 is 1 February,
\* day 59 is 1 March
At(d, h) == d * HoursPerDay + h

Rec(type, weekDays, monthDay, endDate) ==
    Some(RecurrencePattern(type, None, weekDays, monthDay, endDate))

Custom(interval, endDate) ==
    Some(RecurrencePattern("custom", interval, <<>>, None, endDate))

\* events the caller keeps in its collection
CollectionEvents ==
    { CalendarEvent("plain", At(3, 9), At(3, 10), FALSE, None),
      CalendarEvent("janfeb", At(4, 9), At(35, 10), FALSE, None),
      CalendarEvent("allday", At(1, 0), At(1, 23), TRUE, None),
      CalendarEvent("dailyLong", At(2, 23), At(4, 1), FALSE,
                    Rec("daily", <<>>, None, None)),
      CalendarEvent("noneEnded", At(8, 9), At(8, 10), FALSE,
                    Rec("none", <<>>, None, Some(At(5, 0)))),
      CalendarEvent("everyZero", At(3, 9), At(3, 10), FALSE,
                    Custom(Some(0), None)) }

\* events that generateRecurringEvents is called with
BaseEvents ==
    CollectionEvents \cup
    { CalendarEvent("none", At(3, 9), At(3, 10), FALSE,
                    Rec("none", <<>>, None, None)),
      CalendarEvent("yearly", At(3, 9), At(3, 10), FALSE,
                    Rec("yearly", <<>>, None, Some(At(2, 0)))),
      CalendarEvent("daily", At(3, 9), At(3, 10), FALSE,
                    Rec("daily", <<>>, None, None)),
      CalendarEvent("dailyEnd", At(3, 9), At(4, 9), TRUE,
                    Rec("daily", <<>>, None, Some(At(9, 12)))),
      CalendarEvent("monWed", At(3, 23), At(4, 1), FALSE,
                    Rec("weekly", <<1, 3>>, None, None)),
      CalendarEvent("fri", At(5, 9), At(5, 10), FALSE,
                    Rec("weekly", <<5>>, None, None)),
      CalendarEvent("satSun", At(6, 9), At(8, 10), FALSE,
                    Rec("weekly", <<6, 0>>, None, None)),
      CalendarEvent("friEnd", At(5, 9), At(5, 10), FALSE,
                    Rec("weekly", <<5>>, None, Some(At(3, 0)))),
      CalendarEvent("monMon", At(1, 9), At(1, 10), FALSE,
                    Rec("weekly", <<1, 1>>, None, None)),
      CalendarEvent("weeklyNoDays", At(8, 9), At(8, 10), FALSE,
                    Rec("weekly", <<>>, None, Some(At(5, 0)))),
      CalendarEvent("first", At(0, 9), At(0, 10), FALSE,
                    Rec("monthly", <<>>, Some(1), None)),
      CalendarEvent("thirtieth", At(29, 9), At(30, 10), FALSE,
                    Rec("monthly", <<>>, Some(30), None)),
      CalendarEvent("thirtyFirst", At(30, 9), At(30, 10), FALSE,
                    Rec("monthly", <<>>, Some(31), None)),
      CalendarEvent("fifteenthEnd", At(14, 9), At(14, 10), FALSE,
                    Rec("monthly", <<>>, Some(15), Some(At(35, 0)))),
      CalendarEvent("monthlyNoDay", At(8, 9), At(8, 10), FALSE,
                    Rec("monthly", <<>>, None, Some(At(5, 0)))),
      CalendarEvent("everyWeek", At(3, 9), At(3, 10), FALSE,
                    Custom(None, None)),
      CalendarEvent("everyOther", At(3, 22), At(5, 2), FALSE,
                    Custom(Some(2), Some(At(20, 0)))) }

\* events of the custom walk, with intervals that are negative, 0, defaulted
\* and positive
WalkEvents ==
    { CalendarEvent("walk", start, start + 1, FALSE, Custom(interval, endDate)) :
        start \in {At(3, 9), At(10, 9)},
        interval \in {Some(-1), Some(0), None, Some(2)},
        endDate \in {None, Some(At(20, 0))} }

\* the days the day queries are made for
Days == {At(0, 0), At(4, 0), At(7, 0), At(8, 12), At(35, 0)}

\* the ranges generateRecurringEvents is called with: start <= end
Ranges ==
    { <<At(0, 0), At(6, 23)>>,      \* one week, Sunday to Saturday
      <<At(0, 0), At(13, 23)>>,     \* two weeks
      <<At(1, 0), At(7, 0)>>,       \* Monday to Sunday
      <<At(3, 12), At(13, 23)>>,    \* from Wednesday noon
      <<At(4, 0), At(9, 23)>>,      \* Thursday to Tuesday
      <<At(5, 0), At(12, 12)>>,     \* Friday to Friday noon
      <<At(7, 0), At(13, 23)>>,     \* the second week
      <<At(7, 0), At(7, 0)>>,       \* a single instant
      <<At(28, 0), At(63, 23)>>,    \* 29 January to 5 March
      <<At(31, 0), At(58, 23)>>,    \* February
      <<At(0, 0), At(63, 23)>> }    \* 1 January to 5 March

\* the caller's collection holds at most MaxEvents events
MaxEvents == 2

\* the instances of one walk the model keeps apart
MaxInstances == 10

RECURSIVE ArraysOf(_, _)
\* the arrays of at most n elements of S
ArraysOf(S, n) ==
    IF n = 0 THEN {<<>>}
    ELSE ArraysOf(S, n - 1) \cup
         {Append(a, x) : a \in {b \in ArraysOf(S, n - 1) : Len(b) = n - 1}, x \in S}

-----------------------------------------------------------------------------
(* The caller: a collection of events and the calls made on it             *)

NoCall == [fn |-> "none", event |-> None, day |-> None,
           rangeStart |-> None, rangeEnd |-> None]

DayCall(fn, day) == [NoCall EXCEPT !.fn = fn, !.day = Some(day)]

RangeCall(fn, event, rangeStart, rangeEnd) ==
    [NoCall EXCEPT !.fn = fn, !.event = Some(event),
                   !.rangeStart = Some(rangeStart), !.rangeEnd = Some(rangeEnd)]

\* the collection is any array of at most MaxEvents of the collection events,
\* or holds one of the base events
Init ==
    /\ events \in ArraysOf(CollectionEvents, MaxEvents)
                     \cup {<<event>> : event \in BaseEvents}
    /\ call = NoCall
    /\ result = <<>>
    /\ pc = "idle"
    /\ currentDate = 0
    /\ instances = <<>>

\* a call that returns: the caller's array as the call leaves it, and the result
Return(c, effect) ==
    /\ call' = c
    /\ events' = effect.arg
    /\ result' = effect.ret
    /\ pc' = "idle"
    /\ UNCHANGED <<currentDate, instances>>

\* a call that never returns: it has no result
Hang(c) ==
    /\ call' = c
    /\ result' = <<>>
    /\ pc' = "hung"
    /\ UNCHANGED <<events, currentDate, instances>>

GetEventsForDay(day) ==
    /\ pc = "idle"
    /\ Return(DayCall("getEventsForDay", day), getEventsForDay(events, day))

SortEvents ==
    /\ pc = "idle"
    /\ Return([NoCall EXCEPT !.fn = "sortEvents"], sortEvents(events))

GetSpanningEventsForDay(day) ==
    /\ pc = "idle"
    /\ Return(DayCall("getSpanningEventsForDay", day),
              getSpanningEventsForDay(events, day))

GenerateRecurringEvents(k, rangeStart, rangeEnd) ==
    /\ pc = "idle"
    /\ LET event == events[k] IN
       IF Diverges(event, rangeStart, rangeEnd)
       THEN Hang(RangeCall("generateRecurringEvents", event, rangeStart, rangeEnd))
       ELSE Return(RangeCall("generateRecurringEvents", event, rangeStart, rangeEnd),
                   [arg |-> events,
                    ret |-> generateRecurringEvents(event, rangeStart, rangeEnd)])

GetAllEventsForDay(day) ==
    /\ pc = "idle"
    /\ IF Hangs(events, day)
       THEN Hang(DayCall("getAllEventsForDay", day))
       ELSE Return(DayCall("getAllEventsForDay", day), getAllEventsForDay(events, day))

GetAgendaEventsForDay(day) ==
    /\ pc = "idle"
    /\ IF Hangs(events, day)
       THEN Hang(DayCall("getAgendaEventsForDay", day))
       ELSE Return(DayCall("getAgendaEventsForDay", day),
                   getAgendaEventsForDay(events, day))

Next ==
    \/ \E day \in Days : GetEventsForDay(day)
    \/ SortEvents
    \/ \E day \in Days : GetSpanningEventsForDay(day)
    \/ \E k \in 1..Len(events), r \in Ranges : GenerateRecurringEvents(k, r[1], r[2])
    \/ \E day \in Days : GetAllEventsForDay(day)
    \/ \E day \in Days : GetAgendaEventsForDay(day)

Spec == Init /\ [][Next]_vars

-----------------------------------------------------------------------------
(* The custom walk of generateRecurringEvents, one loop step at a time      *)

WalkInit ==
    /\ events \in {<<event>> : event \in WalkEvents}
    /\ call = NoCall
    /\ result = <<>>
    /\ pc = "idle"
    /\ currentDate = 0
    /\ instances = <<>>

\* the event and the range of the call in progress
WalkEvent == Get(call.event)

WalkRangeStart == Get(call.rangeStart)

WalkRangeEnd == Get(call.rangeEnd)

\* instances.push(...); the model keeps the first MaxInstances instances
Push(list, pushed) == IF Len(list) < MaxInstances THEN list \o pushed ELSE list

\* the call up to the switch: the early return, or let currentDate = eventStart
WalkEnter(k, rangeStart, rangeEnd) ==
    /\ pc = "idle"
    /\ Get(events[k].recurrence).type = "custom"
    /\ call' = RangeCall("generateRecurringEvents", events[k], rangeStart, rangeEnd)
    /\ IF RangeAfterEnd(Get(events[k].recurrence), rangeStart)
       THEN /\ pc' = "idle"
            /\ result' = <<>>
            /\ UNCHANGED <<currentDate, instances>>
       ELSE /\ pc' = "test"
            /\ result' = <<>>
            /\ currentDate' = events[k].start
            /\ instances' = <<>>
    /\ UNCHANGED events

\* while (isBefore(currentDate, rangeEnd)); after the loop, return instances
WalkTest ==
    /\ pc = "test"
    /\ IF CustomTest(currentDate, WalkRangeEnd)
       THEN /\ pc' = "body"
            /\ UNCHANGED result
       ELSE /\ pc' = "idle"
            /\ result' = instances
    /\ UNCHANGED <<events, call, currentDate, instances>>

\* the loop body: break, or push an instance in the range and step on
WalkBody ==
    /\ pc = "body"
    /\ IF CustomBreak(WalkEvent, currentDate)
       THEN /\ pc' = "idle"
            /\ result' = instances
            /\ UNCHANGED <<currentDate, instances>>
       ELSE /\ pc' = "test"
            /\ instances' = Push(instances, CustomPush(WalkEvent, currentDate,
                                                       WalkRangeStart, WalkRangeEnd))
            /\ currentDate' = CustomAdvance(WalkEvent, currentDate)
            /\ UNCHANGED result
    /\ UNCHANGED <<events, call>>

WalkNext ==
    \/ \E k \in 1..Len(events), r \in Ranges : WalkEnter(k, r[1], r[2])
    \/ WalkTest
    \/ WalkBody

\* a call that has started keeps running: the loop steps are taken
WalkSpec == WalkInit /\ [][WalkNext]_vars /\ WF_vars(WalkTest) /\ WF_vars(WalkBody)

-----------------------------------------------------------------------------
(* Properties                                                               *)

\* the call fn has returned, and result holds what it returned
Returned(fn) == pc = "idle" /\ call.fn = fn

CallEvent == Get(call.event)

CallRec == Get(CallEvent.recurrence)

CallStart == Get(call.rangeStart)

CallEnd == Get(call.rangeEnd)

CallDay == Get(call.day)

Indices(list) == 1..Len(list)

Elements(list) == {list[k] : k \in Indices(list)}

\* the event is to be treated as non-recurring
TreatedAsNonRecurring(event) ==
    \/ ~IsSome(event.recurrence)
    \/ LET rec == Get(event.recurrence) IN
        \/ rec.type \notin {"daily", "weekly", "monthly", "custom"}
        \/ rec.type = "weekly" /\ Len(rec.weekDays) = 0
        \/ rec.type = "monthly" /\ ~IsSome(rec.monthDay)

\* C1: every call of generateRecurringEvents returns, also for a custom
\* recurrence whose interval is 0 or negative: a call in progress leads to
\* its return.
C1_ExpandTerminates == (pc # "idle") ~> (pc = "idle")

\* C2: when recurrence.endDate is set, generateRecurringEvents returns no
\* occurrence whose start is after endDate, whatever the recurrence type.
C2_NoOccurrenceAfterEndDate ==
    (/\ Returned("generateRecurringEvents")
     /\ IsSome(CallEvent.recurrence)
     /\ IsSome(CallRec.endDate))
    => \A k \in Indices(result) :
          result[k].isRecurringInstance => ~(result[k].start > Get(CallRec.endDate))

\* C3: for an event treated as non-recurring, generateRecurringEvents returns
\* exactly the one-element list holding the event itself, for any range and
\* whatever the other recurrence fields are.
C3_NonRecurringReturnsItself ==
    (Returned("generateRecurringEvents") /\ TreatedAsNonRecurring(CallEvent))
    => result = <<CallEvent>>

\* C4: every generated occurrence covers as many calendar days from its start
\* to its end as the base event does.
C4_CalendarDaysPreserved ==
    Returned("generateRecurringEvents")
    => \A k \in Indices(result) :
          result[k].isRecurringInstance
          => differenceInCalendarDays(result[k].end, result[k].start)
             = differenceInCalendarDays(CallEvent.end, CallEvent.start)

\* C5: the occurrences one call generates have pairwise different ids, and
\* none has the id of the base event.
C5_OccurrenceIdsUnique ==
    (Returned("generateRecurringEvents") /\ ~TreatedAsNonRecurring(CallEvent))
    => /\ \A i, j \in Indices(result) : i # j => result[i].id # result[j].id
       /\ \A i \in Indices(result) : result[i].id # CallEvent.id

\* the calendar dates of start and end differ, or the event is all-day
MultiDayByDate(event) == event.allDay \/ DayOf(event.start) # DayOf(event.end)

\* C6: isMultiDayEvent is true exactly for an all-day event or one whose start
\* and end fall on different calendar dates, and getSpanningEventsForDay
\* reports exactly those of them that cover the day after their start day.
C6_MultiDayIsDateDifference ==
    Returned("getSpanningEventsForDay")
    => /\ \A k \in Indices(events) :
             isMultiDayEvent(events[k]) = MultiDayByDate(events[k])
       /\ result = SelectSeq(events, LAMBDA event:
                       MultiDayByDate(event) /\ CoversAfterStart(event, CallDay))

\* windows that contain the week of the day: up to a week more on each side
WiderWindows(day) ==
    {w \in {<<addWeeks(WindowStart(day), 0 - a), addWeeks(WindowEnd(day), b)>> :
              a \in 0..1, b \in 0..1} :
        /\ w[1] >= 0
        /\ \A k \in Indices(events) : ~Diverges(events[k], w[1], w[2])}

\* C7: getAllEventsForDay returns what the day filter keeps of the expansion
\* of the events against any window that contains the week of the day.
C7_WindowNotObservable ==
    Returned("getAllEventsForDay")
    => \A w \in WiderWindows(CallDay) :
          result = SelectSeq(FlatMapGenerate(events, w[1], w[2], 1),
                             LAMBDA event: OnDay(event, CallDay))

\* the range is made of whole days: it starts with a day and ends with the
\* start or the last instant of a day
WholeDays(rangeStart, rangeEnd) ==
    /\ rangeStart = startOfDay(rangeStart)
    /\ rangeEnd \in {startOfDay(rangeEnd), endOfDay(rangeEnd)}

\* the call expands a weekly recurrence of distinct weekdays 0..6 without
\* endDate over a range of whole days
WeeklyCase ==
    /\ Returned("generateRecurringEvents")
    /\ IsSome(CallEvent.recurrence)
    /\ CallRec.type = "weekly"
    /\ Len(CallRec.weekDays) > 0
    /\ \A i \in Indices(CallRec.weekDays) : CallRec.weekDays[i] \in 0..6
    /\ \A i, j \in Indices(CallRec.weekDays) :
          i # j => CallRec.weekDays[i] # CallRec.weekDays[j]
    /\ ~IsSome(CallRec.endDate)
    /\ WholeDays(CallStart, CallEnd)

\* the dates of the range whose weekday is one of weekDays
WeekdayDates(weekDays, rangeStart, rangeEnd) ==
    {At(d, 0) : d \in {x \in DayOf(rangeStart)..DayOf(rangeEnd) :
                          x % DaysPerWeek \in Elements(weekDays)}}

\* C8: a weekly recurrence of distinct weekdays, without endDate, over a range
\* of whole days yields exactly one occurrence for each date of the range
\* whose weekday is in weekDays, and nothing else.
C8_WeeklyOnePerMatchingDate ==
    WeeklyCase
    => /\ {result[k].start : k \in Indices(result)}
            = WeekdayDates(CallRec.weekDays, CallStart, CallEnd)
       /\ Len(result) = Cardinality(WeekdayDates(CallRec.weekDays, CallStart, CallEnd))
       /\ \A k \in Indices(result) : result[k].isRecurringInstance

\* weekDays [1, 3] over the two weeks from Sunday 1 January gave the four
\* occurrences, and weekDays [6, 0] over Monday..Sunday gave Saturday and the
\* Sunday that ends the range
C8_Witness ==
    /\ WeeklyCase
    /\ \/ /\ CallRec.weekDays = <<1, 3>>
          /\ CallStart = At(0, 0) /\ CallEnd = At(13, 23)
          /\ Len(result) = 4
       \/ /\ CallRec.weekDays = <<6, 0>>
          /\ CallStart = At(1, 0) /\ CallEnd = At(7, 0)
          /\ {result[k].start : k \in Indices(result)} = {At(6, 0), At(7, 0)}

\* the call expands a monthly recurrence with monthDay in 1..31
MonthlyCase ==
    /\ Returned("generateRecurringEvents")
    /\ IsSome(CallEvent.recurrence)
    /\ CallRec.type = "monthly"
    /\ IsSome(CallRec.monthDay)
    /\ Get(CallRec.monthDay) \in 1..31

\* C9: every occurrence of a monthly recurrence falls on monthDay, lies in the
\* range, and is the only one of its month; a month with fewer days than
\* monthDay yields none.
C9_MonthlyOnMonthDay ==
    MonthlyCase
    => /\ \A k \in Indices(result) :
             /\ result[k].isRecurringInstance
             /\ getDate(result[k].start) = Get(CallRec.monthDay)
             /\ DaysInMonth(MonthOf(result[k].start)) >= Get(CallRec.monthDay)
             /\ isWithinInterval(result[k].start, CallStart, CallEnd)
       /\ \A i, j \in Indices(result) :
             i # j => MonthOf(result[i].start) # MonthOf(result[j].start)

\* monthDay 31 over 29 January..5 March: 31 January is generated, February
\* yields nothing although 3 March, where setDate lands, lies in the range
C9_Witness ==
    /\ MonthlyCase
    /\ Get(CallRec.monthDay) = 31
    /\ isWithinInterval(setDate(At(31, 0), 31), CallStart, CallEnd)
    /\ isWithinInterval(At(31, 0), CallStart, CallEnd)
    /\ {result[k].start : k \in Indices(result)} = {At(30, 0)}

\* C10: no call changes the caller's array or the events in it, and a query
\* made again returns an equal result.
C10_CollectionUnchanged ==
    [][/\ events' = events
       /\ (call' = call /\ pc = "idle" /\ pc' = "idle") => result' = result]_vars

\* sortEvents returned the events in another order than the caller's array
\* holds them
C10_Witness == Returned("sortEvents") /\ Len(events) > 1 /\ result # events

====
